---- MODULE Spec2Model ----
(***************************************************************************)
(* Model of kink-playing/kink.py: the polling thread KinkPlaying._run_check *)
(* together with the fetch operations it calls, the history log, the song  *)
(* notification routine and the UI callbacks that share state with it.     *)
(*                                                                         *)
(* Text (station ids, titles, URLs) is a sequence of tokens.  A token is   *)
(* either one of the characters the csv module treats specially (TAB, NL,  *)
(* QUOTE) or a chunk of ordinary characters.                               *)
(***************************************************************************)
EXTENDS Integers, Sequences, FiniteSets, TLC

\* ------------------------------------------------------------------ bounds
\* Number of loop iterations (ticks) the model lets the polling loop start.
MaxTicks == 2
\* Number of song changes the model lets the status document bring.
MaxSongs == 1

\* ------------------------------------------------------------- text values
TAB == "\t"
NL == "\n"
QUOTE == "\""

Empty == << >>

StKink == <<"kink">>
StDna == <<"dna">>
Stations == {StKink, StDna}

TitleA == <<"A">>
TitleB == <<"B">>
\* a title that opens with a double quote, such as  "Heroes (live)
TitleQ == <<QUOTE, "Q">>

ArtU1 == <<"http://x/1.jpg">>
ArtU2 == <<"http://x/2.jpg">>

ArtistOf(s) == <<"artist-">> \o s
ProgramOf(s) == <<"show-">> \o s

\* values of show_notification in settings.ini after str_int
Timeouts == {0, 10}

\* -------------------------------------------------- HTTP responses (requests.get)
\* One entry of extended[station] in the status document.  A missing key is
\* the same, to get_playing, as an empty value.
Entry(t, a) == [title |-> t, album_art |-> a]
Entries ==
    {Entry(Empty, Empty), Entry(TitleA, ArtU1), Entry(TitleA, Empty),
     Entry(TitleB, ArtU1), Entry(TitleB, ArtU2), Entry(TitleQ, ArtU1)}

\* json: "bad" = text json.loads rejects, "empty" = a falsy document such as {},
\* "doc" = an object; stations = whether the object has the key 'stations'.
Docs == [json : {"doc"}, stations : BOOLEAN, extended : [Stations -> Entries]]
NoEntries == [s \in Stations |-> Entry(Empty, Empty)]
BadJson == [json |-> "bad", stations |-> FALSE, extended |-> NoEntries]
EmptyJson == [json |-> "empty", stations |-> FALSE, extended |-> NoEntries]
Bodies == {BadJson, EmptyJson} \cup Docs

\* kind "exc": requests.get raised (timeout, DNS, connection refused).
RespExc == [kind |-> "exc", status |-> 0, body |-> EmptyJson]
Resp503 == [kind |-> "http", status |-> 503, body |-> EmptyJson]
RespOk(b) == [kind |-> "http", status |-> 200, body |-> b]

\* What a request can bring, up to what its caller reads.  _is_connected reads
\* the status only; get_stations reads the key 'stations'; get_playing reads
\* the entries of 'extended'.
StatusResponses == {RespExc, Resp503, RespOk(EmptyJson)}
StationsResponses ==
    {RespExc, Resp503, RespOk(BadJson), RespOk(EmptyJson)}
        \cup {RespOk(d) : d \in {x \in Docs : x.extended = NoEntries}}
PlayingResponses ==
    {RespExc, Resp503, RespOk(BadJson), RespOk(EmptyJson)}
        \cup {RespOk(d) : d \in {x \in Docs : x.stations}}

\* ------------------------------------------------------------ fetch operations
\* _json_request: requests.get may raise; a 200 body goes through json.loads,
\* which raises on invalid JSON; any other status gives None.
JsonRequest(resp) ==
    IF resp.kind = "exc" THEN [raised |-> TRUE, none |-> TRUE, obj |-> EmptyJson]
    ELSE IF resp.status = 200
         THEN IF resp.body.json = "bad"
              THEN [raised |-> TRUE, none |-> TRUE, obj |-> EmptyJson]
              ELSE [raised |-> FALSE, none |-> FALSE, obj |-> resp.body]
         ELSE [raised |-> FALSE, none |-> TRUE, obj |-> EmptyJson]

\* Python truth value of the value _json_request returned ("if obj:").
Truthy(jr) == ~jr.none /\ jr.obj.json = "doc"

\* stations.sort(): 'dna' sorts before 'kink'.
SortedStations == <<StDna, StKink>>

\* get_stations: obj['stations'] is not guarded, so a document without that
\* key raises KeyError.
GetStations(resp) ==
    LET jr == JsonRequest(resp)
    IN  IF jr.raised THEN [raised |-> TRUE, val |-> << >>]
        ELSE IF Truthy(jr)
             THEN IF jr.obj.stations
                  THEN [raised |-> FALSE, val |-> SortedStations]
                  ELSE [raised |-> TRUE, val |-> << >>]
             ELSE [raised |-> FALSE, val |-> << >>]

\* The dict get_playing returns; ok = FALSE is the empty dict {}.
NoPlaying ==
    [ok |-> FALSE, src |-> Empty, artist |-> Empty, title |-> Empty,
     album_art |-> Empty, program |-> Empty]

\* get_playing: every missing key or station becomes ''.  src is not a field
\* of the dict: it records whose entry of the document the fields came from.
GetPlaying(resp, st) ==
    LET jr == JsonRequest(resp)
    IN  IF jr.raised THEN [raised |-> TRUE, val |-> NoPlaying]
        ELSE IF Truthy(jr)
             THEN [raised |-> FALSE,
                   val |-> [ok |-> TRUE, src |-> st,
                            artist |-> ArtistOf(st),
                            title |-> jr.obj.extended[st].title,
                            album_art |-> jr.obj.extended[st].album_art,
                            program |-> ProgramOf(st)]]
             ELSE [raised |-> FALSE, val |-> NoPlaying]

\* _is_connected: True iff the status is 200; requests.get is not guarded.
IsConnected(resp) ==
    IF resp.kind = "exc" THEN [raised |-> TRUE, val |-> FALSE]
    ELSE [raised |-> FALSE, val |-> (resp.status = 200)]

\* ------------------------------------------------------------- history log (csv)
\* The fields _run_check logs for one song change: self.station and the dict
\* get_playing returned.
Record(st, p) ==
    [station |-> st, artist |-> p.artist, title |-> p.title, program |-> p.program,
     album_art |-> p.album_art]

\* The line written for a record (an f-string: the fields are written as they
\* are, separated by tabs, with nothing quoted or escaped).
CsvLine(r) ==
    r.station \o <<TAB>> \o r.artist \o <<TAB>> \o r.title \o <<TAB>> \o r.program
       \o <<TAB>> \o r.album_art \o <<NL>>

\* csv.reader(csv_fle, delimiter='\t') with the default dialect: quotechar '"',
\* doublequote, not strict.  st is the parser state, fld the field being read,
\* row the fields of the record being read, rows the records read so far.
RECURSIVE CsvParse(_, _, _, _, _, _)
CsvParse(text, i, st, fld, row, rows) ==
    IF i > Len(text)
    THEN \* end of input: an open field or an open quote still gives a record
         IF fld # << >> \/ st = "IN_QUOTED_FIELD"
         THEN Append(rows, Append(row, fld))
         ELSE rows
    ELSE LET c == text[i]
         IN  CASE st \in {"START_RECORD", "START_FIELD"} ->
                    IF c = NL THEN CsvParse(text, i + 1, "START_RECORD", << >>, << >>,
                                            Append(rows, IF st = "START_RECORD" THEN << >>
                                                         ELSE Append(row, << >>)))
                    ELSE IF c = QUOTE
                         THEN CsvParse(text, i + 1, "IN_QUOTED_FIELD", << >>, row, rows)
                    ELSE IF c = TAB
                         THEN CsvParse(text, i + 1, "START_FIELD", << >>,
                                       Append(row, << >>), rows)
                    ELSE CsvParse(text, i + 1, "IN_FIELD", <<c>>, row, rows)
               [] st = "IN_FIELD" ->
                    IF c = NL THEN CsvParse(text, i + 1, "START_RECORD", << >>, << >>,
                                            Append(rows, Append(row, fld)))
                    ELSE IF c = TAB
                         THEN CsvParse(text, i + 1, "START_FIELD", << >>,
                                       Append(row, fld), rows)
                    ELSE CsvParse(text, i + 1, "IN_FIELD", Append(fld, c), row, rows)
               [] st = "IN_QUOTED_FIELD" ->
                    IF c = QUOTE
                    THEN CsvParse(text, i + 1, "QUOTE_IN_QUOTED_FIELD", fld, row, rows)
                    ELSE CsvParse(text, i + 1, "IN_QUOTED_FIELD", Append(fld, c), row, rows)
               [] OTHER -> \* QUOTE_IN_QUOTED_FIELD
                    IF c = QUOTE
                    THEN CsvParse(text, i + 1, "IN_QUOTED_FIELD", Append(fld, c), row, rows)
                    ELSE IF c = TAB
                         THEN CsvParse(text, i + 1, "START_FIELD", << >>,
                                       Append(row, fld), rows)
                    ELSE IF c = NL
                         THEN CsvParse(text, i + 1, "START_RECORD", << >>, << >>,
                                       Append(rows, Append(row, fld)))
                    ELSE CsvParse(text, i + 1, "IN_FIELD", Append(fld, c), row, rows)

CsvReader(text) == CsvParse(text, 1, "START_RECORD", << >>, << >>, << >>)

\* The loop of show_song_info over reversed(list(csv.reader(...))): the rows it
\* keeps in csv_data, newest first.  n counts the rows seen (i in the code).
RECURSIVE CsvData(_, _, _, _)
CsvData(rows, n, index, acc) ==
    IF n > Len(rows) THEN acc
    ELSE LET r == rows[Len(rows) + 1 - n]
         IN  IF Len(r) >= 5 /\ n \in {index, index + 1}
             THEN IF n = index + 1 THEN Append(acc, r)
                  ELSE CsvData(rows, n + 1, index, Append(acc, r))
             ELSE CsvData(rows, n + 1, index, acc)

\* The text of the history file: the line of every record appended, in order.
RECURSIVE CsvText(_)
CsvText(recs) ==
    IF recs = << >> THEN << >> ELSE CsvLine(Head(recs)) \o CsvText(Tail(recs))

\* ---------------------------------------------------------------------- state
VARIABLES
    pc,                    \* where the polling thread is in _run_check
    prev_title,            \* local of _run_check
    was_connected,         \* local of _run_check
    playing,               \* local of _run_check: what get_playing returned
    info_index,            \* index, the argument of the show_song_info call (default 1)
    station,               \* self.station
    notification_timeout,  \* self.notification_timeout
    cancelled,             \* self.check_done_event is set
    csv,                   \* the history file: the records appended, in order
    thumb,                 \* /tmp/kink-playing.jpg: Empty = no file, else the URL it was saved from
    icon,                  \* tray icon: "normal" (APP_ID) or "grey"
    menu,                  \* the indicator's menu: [sensitive |-> ...]
    ui,                    \* where the GTK main thread is
    ui_calls,              \* number of UI callbacks started
    ticks,                 \* number of loop iterations started
    ev,                    \* what the current iteration has done so far
    prev_reach,            \* what _is_connected returned in the previous iteration
    all_positive,          \* notification_timeout has been > 0 since start
    late_fetches,          \* requests the polling thread issued after the event was set
    raised                 \* the operation whose exception ended the polling thread

vars == <<pc, prev_title, was_connected, playing, info_index, station,
          notification_timeout,
          cancelled, csv, thumb, icon, menu, ui, ui_calls, ticks, ev, prev_reach,
          all_positive, late_fetches, raised>>

loop_locals == <<prev_title, was_connected, playing, info_index>>
shared == <<station, notification_timeout, all_positive, cancelled>>
files == <<csv, thumb>>
tray == <<icon, menu>>
ui_vars == <<ui, ui_calls>>

\* Number of UI callbacks the model lets the user trigger.
MaxUi == 1

\* What an iteration starts from: the values its effects are measured against.
StartOf(title, was, ico, recs, file) ==
    [prev_title |-> title, was_connected |-> was, icon |-> ico, csv |-> recs,
     thumb |-> file]

EvNone ==
    [reach |-> "none", lost |-> 0, song |-> 0, appended |-> 0, rebuilt |-> 0,
     icons |-> 0, thumbs |-> 0, summary |-> Empty,
     start |-> StartOf(Empty, TRUE, "normal", << >>, Empty)]

\* The state when __init__ has started the polling thread and the thread has
\* truncated the history file and set its locals.
Init ==
    /\ pc = "head"
    /\ prev_title = Empty
    /\ was_connected = TRUE
    /\ playing = NoPlaying
    /\ info_index = 1
    /\ station = StKink
    /\ notification_timeout \in Timeouts
    /\ cancelled = FALSE
    /\ csv = << >>
    /\ thumb = Empty
    /\ icon = "normal"
    /\ menu = [sensitive |-> TRUE]
    /\ ui = "idle"
    /\ ui_calls = 0
    /\ ticks = 0
    /\ ev = EvNone
    /\ prev_reach = TRUE
    /\ all_positive = (notification_timeout > 0)
    /\ late_fetches = 0
    /\ raised = "none"

\* The title of the newest record of the history file ('' when it is empty).
LastTitle == IF csv = << >> THEN Empty ELSE csv[Len(csv)].title

\* ------------------------------------------------------- the polling thread
\* A loop that does not look at the event: while True.
LoopCondIgnoresEvent == TRUE

\* while not self.check_done_event.is_set()
LoopCond == ~cancelled

\* The places where the thread is inside requests.get.
FetchPcs ==
    {"is_connected", "lost_stations", "lost_conn", "rest_stations", "rest_conn",
     "get_playing", "save_thumb"}

\* A step of the polling thread issues a request when it enters requests.get;
\* late_fetches counts the requests issued with the event already set.
CountFetch ==
    late_fetches' =
        late_fetches + (IF cancelled /\ pc' \in FetchPcs /\ pc' # pc THEN 1 ELSE 0)

\* An exception reaches the top of _run_check: the thread ends.
Crash(op) ==
    /\ pc' = "crashed"
    /\ raised' = op

\* Evaluate the loop condition: start the next iteration or leave the loop.
LoopHead ==
    /\ pc = "head"
    /\ IF LoopCond
       THEN /\ ticks < MaxTicks
            /\ pc' = "check"
            /\ ticks' = ticks + 1
            /\ ev' = [EvNone EXCEPT !.start = StartOf(prev_title, was_connected, icon,
                                                       csv, thumb)]
            /\ prev_reach' = (ev.reach # "down")
       ELSE /\ pc' = "done"
            /\ UNCHANGED <<ticks, ev, prev_reach>>
    /\ UNCHANGED <<loop_locals, shared, files, tray, ui_vars, raised>>
    /\ CountFetch

\* self._is_connected() is called: its requests.get is issued.
CallIsConnected ==
    /\ pc = "check"
    /\ pc' = "is_connected"
    /\ UNCHANGED <<loop_locals, shared, files, tray, ui_vars, ticks, ev, prev_reach,
                   raised>>
    /\ CountFetch

\* A loop that forgets was_connected when the endpoint is unreachable.
AfterReachabilityAlwaysLost(conn, was) ==
    IF ~conn THEN "lost_stations"
    ELSE (IF ~was THEN "rest_stations" ELSE "get_playing")

\* Where _run_check goes once _is_connected has returned conn: into the
\* get_stations of _build_menu, into get_playing, or to the wait.
AfterReachability(conn, was) ==
    IF ~conn THEN (IF was THEN "lost_stations" ELSE "wait")
    ELSE (IF ~was THEN "rest_stations" ELSE "get_playing")

\* self._is_connected() of the loop returns or raises.
IsConnectedReturn ==
    /\ pc = "is_connected"
    /\ \E resp \in StatusResponses :
         LET r == IsConnected(resp)
         IN  IF r.raised
             THEN Crash("_is_connected") /\ UNCHANGED ev
             ELSE /\ ev' = [ev EXCEPT !.reach = IF r.val THEN "up" ELSE "down"]
                  /\ pc' = AfterReachability(r.val, was_connected)
                  /\ UNCHANGED raised
    /\ UNCHANGED <<loop_locals, shared, files, tray, ui_vars, ticks, prev_reach>>
    /\ CountFetch

\* _build_menu called by the loop: its get_stations returns or raises; its
\* _is_connected is called next.
BuildMenuStations ==
    /\ pc \in {"lost_stations", "rest_stations"}
    /\ \E resp \in StationsResponses :
         IF GetStations(resp).raised
         THEN Crash("get_stations")
         ELSE /\ pc' = (IF pc = "lost_stations" THEN "lost_conn" ELSE "rest_conn")
              /\ UNCHANGED raised
    /\ UNCHANGED <<loop_locals, shared, files, tray, ui_vars, ticks, ev, prev_reach>>
    /\ CountFetch

\* A grey icon that is the normal one.
GreyIconIsNormal == "normal"

\* self.grey_icon, the icon of the lost connection.
grey_icon == "grey"

\* The connection was lost: the end of _build_menu (its own _is_connected
\* decides what is sensitive), then the grey icon, the notification and the flag.
LostConnection ==
    /\ pc = "lost_conn"
    /\ \E resp \in StatusResponses :
         LET r == IsConnected(resp)
         IN  IF r.raised
             THEN Crash("_is_connected")
                  /\ UNCHANGED <<menu, icon, ev, was_connected>>
             ELSE /\ menu' = [sensitive |-> r.val]
                  /\ icon' = grey_icon
                  /\ ev' = [ev EXCEPT !.rebuilt = @ + 1, !.icons = @ + 1,
                                      !.lost = @ + 1]
                  /\ was_connected' = FALSE
                  /\ pc' = "wait"
                  /\ UNCHANGED raised
    /\ UNCHANGED <<prev_title, playing, info_index, shared, files, ui_vars, ticks, prev_reach>>
    /\ CountFetch

\* The connection is back: the end of _build_menu, then the normal icon and
\* the flag; the iteration goes on into get_playing.
Reconnected ==
    /\ pc = "rest_conn"
    /\ \E resp \in StatusResponses :
         LET r == IsConnected(resp)
         IN  IF r.raised
             THEN Crash("_is_connected")
                  /\ UNCHANGED <<menu, icon, ev, was_connected>>
             ELSE /\ menu' = [sensitive |-> r.val]
                  /\ icon' = "normal"
                  /\ ev' = [ev EXCEPT !.rebuilt = @ + 1, !.icons = @ + 1]
                  /\ was_connected' = TRUE
                  /\ pc' = "get_playing"
                  /\ UNCHANGED raised
    /\ UNCHANGED <<prev_title, playing, info_index, shared, files, ui_vars, ticks, prev_reach>>
    /\ CountFetch

\* A comparison that forgets prev_title: if playing['title'].
IsSongChangeAnyTitle(p, prev) == p.ok /\ p.title # Empty

\* if playing: if playing['title'] and playing['title'] != prev_title
IsSongChange(p, prev) == p.ok /\ p.title # Empty /\ p.title # prev

\* playing = self.get_playing() returns or raises.
GetPlayingReturn ==
    /\ pc = "get_playing"
    /\ \E resp \in PlayingResponses :
         LET r == GetPlaying(resp, station)
         IN  IF r.raised
             THEN Crash("get_playing") /\ UNCHANGED playing
             ELSE /\ Len(csv) < MaxSongs \/ r.val.title \in {Empty, LastTitle}
                  /\ playing' = r.val
                  /\ pc' = "log"
                  /\ UNCHANGED raised
    /\ UNCHANGED <<prev_title, was_connected, info_index, shared, files, tray, ui_vars,
                   ticks, ev, prev_reach>>
    /\ CountFetch

\* csv_data of show_song_info(index) when the history file holds recs.
SongData(recs, index) == CsvData(CsvReader(CsvText(recs)), 1, index, << >>)

\* The "Album art" branch of show_song_info: what happens to the cached file.
ThumbAction(data, index, exists) ==
    IF data[1][5] # Empty
    THEN IF ~exists \/ Len(data) = 1 THEN "save"
         ELSE IF data[1][5] # data[2][5] \/ index > 1 THEN "save" ELSE "keep"
    ELSE "remove"

\* The end of show_song_info: the notification is shown only if
\* self.notification_timeout > 0.  e is the iteration's record of events; the
\* summary of the notification begins with st, the value of self.station when
\* the notification is built.
ShowSong(e, timeout, st) ==
    IF timeout > 0 THEN [e EXCEPT !.song = @ + 1, !.summary = st] ELSE e

\* A song change that does not save the title: prev_title stays as it was.
KeepPrevTitle(p, prev) == prev

\* prev_title = playing['title'], the last statement of a song change.
NextPrevTitle(p, prev) == p.title

\* The comparison with prev_title.  A song change is appended to the history
\* file and show_song_info runs, either into the requests.get of _save_thumb or
\* to its end; then prev_title is set and the iteration is over.  With no song
\* change the iteration is over at once.
LogSong ==
    /\ pc = "log"
    /\ IF IsSongChange(playing, prev_title)
       THEN LET recs == Append(csv, Record(station, playing))
                data == SongData(recs, info_index)
            IN  /\ csv' = recs
                /\ IF data = << >>
                   THEN /\ ev' = [ev EXCEPT !.appended = @ + 1]
                        /\ prev_title' = NextPrevTitle(playing, prev_title)
                        /\ pc' = "wait"
                        /\ UNCHANGED thumb
                   ELSE IF ThumbAction(data, info_index, thumb # Empty) = "save"
                        THEN /\ ev' = [ev EXCEPT !.appended = @ + 1, !.thumbs = @ + 1]
                             /\ pc' = "save_thumb"
                             /\ UNCHANGED <<prev_title, thumb>>
                        ELSE /\ thumb' = (IF ThumbAction(data, info_index, thumb # Empty) = "remove"
                                          THEN Empty ELSE thumb)
                             /\ ev' = ShowSong([ev EXCEPT !.appended = @ + 1],
                                               notification_timeout, station)
                             /\ prev_title' = NextPrevTitle(playing, prev_title)
                             /\ pc' = "wait"
       ELSE /\ pc' = "wait"
            /\ UNCHANGED <<csv, ev, prev_title, thumb>>
    /\ UNCHANGED <<was_connected, playing, info_index, shared, tray, ui_vars, ticks,
                   prev_reach, raised>>
    /\ CountFetch

\* _save_thumb(url): requests.get returns or raises; only a 200 writes the
\* file.  Then the end of show_song_info and prev_title = playing['title'].
SaveThumbReturn ==
    /\ pc = "save_thumb"
    /\ \E resp \in StatusResponses :
         IF resp.kind = "exc"
         THEN Crash("_save_thumb") /\ UNCHANGED <<thumb, ev, prev_title>>
         ELSE /\ thumb' = (IF resp.status = 200 THEN SongData(csv, info_index)[1][5] ELSE thumb)
              /\ ev' = ShowSong(ev, notification_timeout, station)
              /\ prev_title' = NextPrevTitle(playing, prev_title)
              /\ pc' = "wait"
              /\ UNCHANGED raised
    /\ UNCHANGED <<was_connected, playing, info_index, shared, csv, tray, ui_vars, ticks,
                   prev_reach>>
    /\ CountFetch

\* self.check_done_event.wait(self.wait) returns: the interval ran out or the
\* event was set.
WaitReturn ==
    /\ pc = "wait"
    /\ pc' = "head"
    /\ UNCHANGED <<loop_locals, shared, files, tray, ui_vars, ticks, ev, prev_reach,
                   raised>>
    /\ CountFetch

LoopNext ==
    \/ LoopHead
    \/ CallIsConnected
    \/ IsConnectedReturn
    \/ BuildMenuStations
    \/ LostConnection
    \/ Reconnected
    \/ GetPlayingReturn
    \/ LogSong
    \/ SaveThumbReturn
    \/ WaitReturn

\* ------------------------------------------------------ the GTK main thread
loop_vars ==
    <<pc, loop_locals, csv, thumb, icon, ticks, ev, prev_reach, late_fetches, raised>>

\* switch_station(station): the assignment, then _build_menu, which calls
\* get_stations.
SwitchStation ==
    /\ ui = "idle"
    /\ ui_calls < MaxUi
    /\ \E s \in Stations \ {station} : station' = s
    /\ ui' = "menu_stations"
    /\ ui_calls' = ui_calls + 1
    /\ UNCHANGED <<loop_vars, notification_timeout, all_positive, cancelled, menu>>

\* play_pause: play_kink or pause_kink, either of which ends in _build_menu.
PlayPause ==
    /\ ui = "idle"
    /\ ui_calls < MaxUi
    /\ ui' = "menu_stations"
    /\ ui_calls' = ui_calls + 1
    /\ UNCHANGED <<loop_vars, shared, menu>>

\* _build_menu of a callback: get_stations returns or raises (an exception
\* ends the callback, not the main thread); _is_connected is called next.
UiMenuStations ==
    /\ ui = "menu_stations"
    /\ \E resp \in StationsResponses :
         ui' = (IF GetStations(resp).raised THEN "idle" ELSE "menu_conn")
    /\ UNCHANGED <<loop_vars, shared, menu, ui_calls>>

\* _build_menu of a callback: _is_connected returns or raises; the menu is set.
UiMenuConn ==
    /\ ui = "menu_conn"
    /\ ui' = "idle"
    /\ \E resp \in StatusResponses :
         LET r == IsConnected(resp)
         IN  menu' = (IF r.raised THEN menu ELSE [sensitive |-> r.val])
    /\ UNCHANGED <<loop_vars, shared, ui_calls>>

\* show_settings: the editor is closed and read_config reads the settings again.
ShowSettings ==
    /\ ui = "idle"
    /\ ui_calls < MaxUi
    /\ station' \in Stations
    /\ notification_timeout' \in Timeouts
    /\ all_positive' = (all_positive /\ notification_timeout' > 0)
    /\ ui_calls' = ui_calls + 1
    /\ UNCHANGED <<loop_vars, cancelled, menu, ui>>

\* quit: the event is set, the player stopped, the station saved and the main
\* loop left.
Quit ==
    /\ ui = "idle"
    /\ cancelled' = TRUE
    /\ ui' = "quit"
    /\ UNCHANGED <<loop_vars, station, notification_timeout, all_positive, menu,
                   ui_calls>>

UiNext ==
    \/ SwitchStation
    \/ PlayPause
    \/ UiMenuStations
    \/ UiMenuConn
    \/ ShowSettings
    \/ Quit

Next == LoopNext \/ UiNext

Spec == Init /\ [][Next]_vars

\* The scheduler runs the polling thread whenever it can take a step, and
\* requests.get returns or raises within its timeout.
FairSpec == Spec /\ WF_vars(LoopNext)

\* ------------------------------------------- show_song_info as a routine
\* show_song_info(index) is called by _run_check after an append and by the
\* menu item 'Now playing' (show_current).  InfoSpec runs one call of it from
\* every history file, cached thumbnail, timeout and index within the bounds.

\* Number of records of the history file a call is given.
MaxRecs == 2

\* index: the default, and a look-back of one song.
Indexes == {1, 2}

Titles == {TitleA, TitleB, TitleQ}
Arts == {Empty, ArtU1, ArtU2}

\* The records _run_check appends: the title is never empty.
SongRecords ==
    {Record(s, [NoPlaying EXCEPT !.ok = TRUE, !.src = s, !.artist = ArtistOf(s),
                                 !.title = t, !.program = ProgramOf(s),
                                 !.album_art = a]) :
        s \in Stations, t \in Titles, a \in Arts}

\* The history files of up to n records: _run_check never appends the title
\* it appended last.
RECURSIVE Histories(_)
Histories(n) ==
    IF n = 0 THEN {<< >>}
    ELSE LET H == Histories(n - 1)
             Longest == {h \in H : Len(h) = n - 1}
             Changes == {hr \in Longest \X SongRecords :
                            hr[1] = << >> \/ hr[1][Len(hr[1])].title # hr[2].title}
         IN  H \cup {Append(hr[1], hr[2]) : hr \in Changes}

InfoInit ==
    /\ pc = "info"
    /\ csv \in Histories(MaxRecs)
    /\ thumb \in Arts
    /\ notification_timeout \in Timeouts
    /\ info_index \in Indexes
    /\ station \in Stations
    /\ prev_title = LastTitle
    /\ was_connected = TRUE
    /\ playing = NoPlaying
    /\ cancelled = FALSE
    /\ icon = "normal"
    /\ menu = [sensitive |-> TRUE]
    /\ ui = "idle"
    /\ ui_calls = 0
    /\ ticks = 0
    /\ ev = [EvNone EXCEPT !.start = StartOf(prev_title, TRUE, "normal", csv, thumb)]
    /\ prev_reach = TRUE
    /\ all_positive = (notification_timeout > 0)
    /\ late_fetches = 0
    /\ raised = "none"

\* show_song_info(index) up to the requests.get of _save_thumb, or to its end
\* when nothing is downloaded.
ShowSongInfo ==
    /\ pc = "info"
    /\ LET data == SongData(csv, info_index)
       IN  IF data = << >>
           THEN /\ pc' = "info_done"
                /\ UNCHANGED <<thumb, ev>>
           ELSE IF ThumbAction(data, info_index, thumb # Empty) = "save"
                THEN /\ pc' = "info_save"
                     /\ ev' = [ev EXCEPT !.thumbs = @ + 1]
                     /\ UNCHANGED thumb
                ELSE /\ thumb' = (IF ThumbAction(data, info_index, thumb # Empty) = "remove"
                                  THEN Empty ELSE thumb)
                     /\ ev' = ShowSong(ev, notification_timeout, station)
                     /\ pc' = "info_done"
    /\ UNCHANGED <<loop_locals, shared, csv, tray, ui_vars, ticks, prev_reach,
                   late_fetches, raised>>

\* _save_thumb(url) of that call: requests.get returns or raises; only a 200
\* writes the file; then the notification.
InfoSaveThumbReturn ==
    /\ pc = "info_save"
    /\ \E resp \in StatusResponses :
         IF resp.kind = "exc"
         THEN /\ pc' = "info_raised"
              /\ raised' = "_save_thumb"
              /\ UNCHANGED <<thumb, ev>>
         ELSE /\ thumb' = (IF resp.status = 200 THEN SongData(csv, info_index)[1][5]
                           ELSE thumb)
              /\ ev' = ShowSong(ev, notification_timeout, station)
              /\ pc' = "info_done"
              /\ UNCHANGED raised
    /\ UNCHANGED <<loop_locals, shared, csv, tray, ui_vars, ticks, prev_reach,
                   late_fetches>>

InfoNext ==
    \/ ShowSongInfo
    \/ InfoSaveThumbReturn

InfoSpec == InfoInit /\ [][InfoNext]_vars

\* ---------------------------------------------------------------------- claims
\* The iteration is over: the thread reached its wait, or an exception ended it.
TickOver == pc \in {"wait", "crashed"}

\* C1: in every iteration in which _is_connected returned, the 'unable to
\* connect' notification is shown exactly once if the endpoint was found
\* unreachable and the previous iteration had found it reachable (the first
\* iteration counts as following a reachable one), and not at all otherwise.
C1_LostNotifiedOncePerRun ==
    (TickOver /\ ev.reach # "none")
        => ev.lost = (IF ev.reach = "down" /\ prev_reach THEN 1 ELSE 0)

C4_RestoredOnceOnRecovery ==
    (TickOver /\ ev.reach = "up")
        => IF ~prev_reach
           THEN /\ ev.rebuilt = 1 /\ ev.icons = 1 /\ ev.lost = 0
                /\ icon = "normal" /\ was_connected
           ELSE ev.rebuilt = 0 /\ ev.icons = 0 /\ ev.lost = 0

\* C5: _is_connected, get_playing and get_stations never raise to their
\* caller, whatever the request brings.
C5_FetchReturnsFailureValue ==
    raised \notin {"_is_connected", "get_playing", "get_stations"}

\* C6: while the event is not set the polling thread is never ended by a
\* fetch outcome.
C6_LoopKeepsTicking == ~cancelled => pc # "crashed"

\* How far the polling thread is from the end of its iteration and from the
\* loop condition after it.
Rank(p) ==
    CASE p = "check" -> 10
      [] p = "is_connected" -> 9
      [] p \in {"lost_stations", "rest_stations"} -> 8
      [] p \in {"lost_conn", "rest_conn"} -> 7
      [] p = "get_playing" -> 6
      [] p = "log" -> 5
      [] p = "save_thumb" -> 4
      [] p = "wait" -> 3
      [] p = "head" -> 2
      [] OTHER -> 1

\* C7: once the event is set the polling thread ends: until it has ended it
\* can always take a step (at "log" the step is the comparison, which has no
\* guard), and each of its steps brings it nearer to the end; so under
\* FairSpec it ends, through the loop condition or through an exception of
\* the iteration in progress.  If the event is set while the thread is in its
\* wait or at the loop condition, the thread leaves the loop through the loop
\* condition without issuing another request.
C7_CancelEndsLoop ==
    /\ []((cancelled /\ pc \notin {"done", "crashed", "log"}) => ENABLED LoopNext)
    /\ [][(cancelled /\ pc' # pc) => Rank(pc') < Rank(pc)]_vars
    /\ [][(cancelled /\ pc \in {"wait", "head", "done"})
            => (pc' \in {"wait", "head", "done"} /\ late_fetches' = late_fetches)]_vars

C7_Witness == cancelled /\ pc = "done" /\ ticks > 0 /\ late_fetches = 0

\* C8 as claimed: the polling thread issues no request once the event is set.
C8_NoFetchAfterCancel == late_fetches = 0

\* C8 as amended: once the event is set the loop condition never passes
\* again, so no new iteration starts; the iteration in progress still issues
\* its remaining requests, five at most (the reachability check, the two of a
\* menu rebuild, the status fetch and the thumbnail download).
C8_NoNewIterationAfterCancel ==
    /\ [][cancelled => ticks' = ticks]_vars
    /\ [](late_fetches <= 5)

C8_Witness == cancelled /\ late_fetches = 5

\* C9: with a notification timeout that has always been positive, every
\* iteration shows as many song notifications as it appended records, one at
\* most.
C9_SongNotifiedPerRecord ==
    (TickOver /\ all_positive) => (ev.appended <= 1 /\ ev.song = ev.appended)

\* C10: no step taken while the notification timeout is zero or negative
\* shows a notification.
C10_NoNotificationWhenDisabled ==
    [][notification_timeout <= 0
         => (ev'.lost <= ev.lost /\ ev'.song <= ev.song)]_vars

\* The call of show_song_info is over: it returned, is inside _save_thumb's
\* request, or was ended by that request's exception.
InfoOver == pc \in {"info_save", "info_done", "info_raised"}

\* C11: a call of show_song_info(index) downloads album art iff the record it
\* selects (the newest with the default index) has a non-empty art URL and
\* either the index is not the default, or no cached file existed, or the history
\* holds one record only, or the newest record's art URL differs from that of
\* the record before it; otherwise nothing is downloaded.
C11_DownloadsIffArtChanged ==
    InfoOver =>
        LET n == Len(csv)
        IN  (ev.thumbs = 1) <=>
                /\ n >= info_index
                /\ csv[n + 1 - info_index].album_art # Empty
                /\ \/ info_index > 1
                   \/ ev.start.thumb = Empty
                   \/ n = 1
                   \/ csv[n].album_art # csv[n - 1].album_art

\* C12: when the newest record and the record before it have the same
\* non-empty art URL, a call of show_song_info with the default index
\* downloads nothing, whether or not a cached file exists.
C12_SameArtSkipsFetch ==
    (/\ InfoOver /\ info_index = 1 /\ Len(csv) >= 2
     /\ csv[Len(csv)].album_art # Empty
     /\ csv[Len(csv)].album_art = csv[Len(csv) - 1].album_art)
        => ev.thumbs = 0

\* The places where the GTK main thread is inside a requests.get of the
\* status document (the get_stations and _is_connected of _build_menu).
UiFetchPcs == {"menu_stations", "menu_conn"}

\* The number of requests for the status document that are in flight.
StatusFetchesInFlight ==
    (IF pc \in FetchPcs \ {"save_thumb"} THEN 1 ELSE 0)
        + (IF ui \in UiFetchPcs THEN 1 ELSE 0)

\* C13: at most one request for the status document is in flight at any time.
C13_OneFetchInFlight == StatusFetchesInFlight <= 1

\* C14: the station (and with it the poller state) changes only between the
\* iterations of the polling loop, never while an iteration is running.
C14_StationStableDuringTick ==
    [][station' # station => pc \in {"head", "wait", "done", "crashed"}]_vars

\* The iteration fires no event: the endpoint is unreachable and was_connected
\* was already false, or it is reachable with was_connected true and the
\* status fetch failed or brought an empty title or the title of prev_title.
NoEventTick ==
    \/ ev.reach = "down" /\ ~ev.start.was_connected
    \/ /\ ev.reach = "up" /\ ev.start.was_connected
       /\ \/ raised = "get_playing"
          \/ /\ pc = "wait"
             /\ (~playing.ok \/ playing.title = Empty
                    \/ playing.title = ev.start.prev_title)

C16_RebuiltMenuMatchesState ==
    [][ /\ (pc = "lost_conn" /\ pc' = "wait") => ~menu'.sensitive
        /\ (pc = "rest_conn" /\ pc' = "get_playing") => menu'.sensitive ]_vars

\* C17: after a call of show_song_info with the default index, if the newest
\* record of the history file has an empty art URL there is no cached file;
\* if the history file is empty the cached file is what it was.
C17_NoArtRemovesThumb ==
    (pc \in {"info_done", "info_raised"} /\ info_index = 1)
        => /\ (csv # << >> /\ csv[Len(csv)].album_art = Empty) => thumb = Empty
           /\ csv = << >> => thumb = ev.start.thumb

\* C18: when an iteration is over the icon is the grey one iff was_connected
\* is false and the normal one iff was_connected is true.
C18_IconMatchesWasConnected ==
    TickOver => /\ (icon = "grey") <=> ~was_connected
                /\ (icon = "normal") <=> was_connected

\* The icon went grey in the first iteration and is normal again in the second.
C18_Witness ==
    /\ pc = "wait" /\ ticks = 2 /\ ev.icons = 1 /\ ev.start.icon = "grey"
    /\ icon = "normal" /\ was_connected

\* C19: the station field of every record of the history file is the station
\* whose entry of the status document its artist and program (and with them
\* its title and art URL) were read from.
C19_RecordFromOneStation ==
    \A i \in 1..Len(csv) :
        /\ csv[i].artist = ArtistOf(csv[i].station)
        /\ csv[i].program = ProgramOf(csv[i].station)

\* C20: when a call of show_song_info with the default index has shown its
\* notification, the newest record has a non-empty art URL and a cached file
\* exists, the cached file is the image of that record's art URL.
C20_ThumbIsNewestArt ==
    (/\ pc = "info_done" /\ info_index = 1 /\ ev.song = 1
     /\ csv # << >> /\ csv[Len(csv)].album_art # Empty /\ thumb # Empty)
        => thumb = csv[Len(csv)].album_art

\* The row whose artist, title and program the notification displays:
\* csv_data[0] of the call.
ShownRow == SongData(csv, info_index)[1]

\* C21: when a call of show_song_info has shown its notification, the station
\* named in the summary is the station field of the record displayed.
C21_SummaryNamesRecordStation ==
    (pc = "info_done" /\ ev.song = 1) => ev.summary = ShownRow[1]

====
